---- MODULE Spec2Model ----
(***************************************************************************)
(* A model of naive_mandelbrot.py: the coordinate sampler (linspace), the  *)
(* escape-time point evaluator (mandelbrot_point) and the grid evaluator   *)
(* (mandelbrot_grid).                                                      *)
(*                                                                         *)
(* Python's float is IEEE-754 binary64.  The model computes with it        *)
(* bit-exactly: a finite float is sgn * man * 2^exp with man a natural     *)
(* number of at most 53 bits, every operation is the exact result          *)
(* rounded to nearest, ties to even.  Naturals wider than TLC's integers   *)
(* are kept as little-endian sequences of limbs.  The inputs of the model  *)
(* keep every value far inside the normal range, so infinities, NaNs and   *)
(* subnormals are not represented; the sign of a zero, which no operation  *)
(* of the program can observe, is not represented either.                  *)
(***************************************************************************)
EXTENDS Integers, Sequences, FiniteSets, TLC

(***************************************************************************)
(* Natural numbers of any size: <<l1, ..., lk>> is l1 + l2*LimbBase + ...  *)
(* with lk # 0; zero is << >>.                                             *)
(***************************************************************************)
LimbBits == 7 + 7
LimbBase == 2^LimbBits

Limb(a, k) == IF k <= Len(a) THEN a[k] ELSE 0

RECURSIVE BTrim(_)
BTrim(a) ==
    IF Len(a) > 0 /\ a[Len(a)] = 0 THEN BTrim(SubSeq(a, 1, Len(a) - 1)) ELSE a

BFromInt(k) ==
    BTrim(<<k % LimbBase, (k \div LimbBase) % LimbBase, k \div (LimbBase * LimbBase)>>)

RECURSIVE BAddC(_, _, _, _)
BAddC(a, b, k, carry) ==
    IF k > Len(a) /\ k > Len(b)
    THEN IF carry = 0 THEN << >> ELSE <<carry>>
    ELSE LET s == Limb(a, k) + Limb(b, k) + carry
         IN  <<s % LimbBase>> \o BAddC(a, b, k + 1, s \div LimbBase)

BAdd(a, b) == BAddC(a, b, 1, 0)

\* a - b for a >= b
RECURSIVE BSubC(_, _, _, _)
BSubC(a, b, k, borrow) ==
    IF k > Len(a)
    THEN << >>
    ELSE LET d == Limb(a, k) - Limb(b, k) - borrow
         IN  IF d < 0
             THEN <<d + LimbBase>> \o BSubC(a, b, k + 1, 1)
             ELSE <<d>> \o BSubC(a, b, k + 1, 0)

BSub(a, b) == BTrim(BSubC(a, b, 1, 0))

\* -1, 0, 1 as a < b, a = b, a > b
RECURSIVE BCmpFrom(_, _, _)
BCmpFrom(a, b, k) ==
    IF k = 0 THEN 0
    ELSE IF a[k] < b[k] THEN -1
    ELSE IF a[k] > b[k] THEN 1
    ELSE BCmpFrom(a, b, k - 1)

BCmp(a, b) ==
    IF Len(a) < Len(b) THEN -1
    ELSE IF Len(a) > Len(b) THEN 1
    ELSE BCmpFrom(a, b, Len(a))

\* a * m for 0 <= m < LimbBase
RECURSIVE BMulSmallC(_, _, _, _)
BMulSmallC(a, m, k, carry) ==
    IF k > Len(a)
    THEN IF carry = 0 THEN << >> ELSE <<carry>>
    ELSE LET p == a[k] * m + carry
         IN  <<p % LimbBase>> \o BMulSmallC(a, m, k + 1, p \div LimbBase)

BMulSmall(a, m) == IF m = 0 THEN << >> ELSE BMulSmallC(a, m, 1, 0)

BShlLimbs(a, k) == IF a = << >> THEN << >> ELSE [x \in 1..k |-> 0] \o a

RECURSIVE BMulFrom(_, _, _)
BMulFrom(a, b, k) ==
    IF k > Len(b) THEN << >>
    ELSE BAdd(BShlLimbs(BMulSmall(a, b[k]), k - 1), BMulFrom(a, b, k + 1))

BMul(a, b) == BMulFrom(a, b, 1)

\* quotient and remainder of a by d, 0 < d < LimbBase
RECURSIVE BDivStep(_, _, _, _)
BDivStep(a, d, k, r) ==
    IF k = 0 THEN [q |-> << >>, r |-> r]
    ELSE LET cur  == r * LimbBase + a[k]
             rest == BDivStep(a, d, k - 1, cur % d)
         IN  [q |-> Append(rest.q, cur \div d), r |-> rest.r]

BDivSmall(a, d) ==
    LET qr == BDivStep(a, d, Len(a), 0) IN [q |-> BTrim(qr.q), r |-> qr.r]

BShl(a, k) == BShlLimbs(BMulSmall(a, 2^(k % LimbBits)), k \div LimbBits)

BShr(a, k) ==
    LET drop == k \div LimbBits
    IN  IF drop >= Len(a) THEN << >>
        ELSE BDivSmall(SubSeq(a, drop + 1, Len(a)), 2^(k % LimbBits)).q

RECURSIVE IntBitLen(_)
IntBitLen(x) == IF x = 0 THEN 0 ELSE 1 + IntBitLen(x \div 2)

BitLen(a) ==
    IF a = << >> THEN 0 ELSE LimbBits * (Len(a) - 1) + IntBitLen(a[Len(a)])

RECURSIVE IntTrailingZeros(_)
IntTrailingZeros(x) == IF x % 2 = 1 THEN 0 ELSE 1 + IntTrailingZeros(x \div 2)

\* the number of trailing zero bits of a # 0
RECURSIVE BTrailingZeros(_, _)
BTrailingZeros(a, k) ==
    IF a[k] = 0 THEN LimbBits + BTrailingZeros(a, k + 1)
    ELSE IntTrailingZeros(a[k])

BIsOdd(a) == a # << >> /\ a[1] % 2 = 1

(***************************************************************************)
(* binary64.  A float is [sgn, man, exp] of value sgn * man * 2^exp, kept  *)
(* canonical (man odd, or zero as FZero) so that equal values are equal    *)
(* records.                                                                *)
(***************************************************************************)
Precision == 53

FZero == [sgn |-> 1, man |-> << >>, exp |-> 0]

Canon(s, m, e) ==
    IF m = << >> THEN FZero
    ELSE LET tz == BTrailingZeros(m, 1)
         IN  [sgn |-> s, man |-> BShr(m, tz), exp |-> e + tz]

\* s * m * 2^e rounded to Precision bits, to nearest, ties to even
Round(s, m, e) ==
    LET len == BitLen(m) IN
    IF len <= Precision THEN Canon(s, m, e)
    ELSE LET k    == len - Precision
             q    == BShr(m, k)
             r    == BSub(m, BShl(q, k))
             half == BCmp(r, BShl(<<1>>, k - 1))
             up   == half = 1 \/ (half = 0 /\ BIsOdd(q))
         IN  Canon(s, IF up THEN BAdd(q, <<1>>) ELSE q, e + k)

\* float(k) for an int k that needs no rounding
FFromInt(k) == IF k < 0 THEN Canon(-1, BFromInt(-k), 0) ELSE Canon(1, BFromInt(k), 0)

\* the float k / 2^f
Dyadic(k, f) == IF k < 0 THEN Canon(-1, BFromInt(-k), -f) ELSE Canon(1, BFromInt(k), -f)

FNeg(x) == IF x = FZero THEN FZero ELSE [x EXCEPT !.sgn = -x.sgn]

\* the exact sum of two floats, as [sgn, man, exp] not yet rounded
ExactAdd(x, y) ==
    LET e  == IF x.exp < y.exp THEN x.exp ELSE y.exp
        mx == BShl(x.man, x.exp - e)
        my == BShl(y.man, y.exp - e)
        c  == BCmp(mx, my)
    IN  IF x.sgn = y.sgn THEN [sgn |-> x.sgn, man |-> BAdd(mx, my), exp |-> e]
        ELSE IF c = 0 THEN FZero
        ELSE IF c = 1 THEN [sgn |-> x.sgn, man |-> BSub(mx, my), exp |-> e]
        ELSE [sgn |-> y.sgn, man |-> BSub(my, mx), exp |-> e]

FAdd(x, y) == LET s == ExactAdd(x, y) IN Round(s.sgn, s.man, s.exp)

FSub(x, y) == FAdd(x, FNeg(y))

FMul(x, y) == Round(x.sgn * y.sgn, BMul(x.man, y.man), x.exp + y.exp)

\* x / float(d) for an int d # 0 with |d| < LimbBase: the quotient is taken to
\* GuardBits bits below x's last place, and a remainder is kept as one more
\* (sticky) bit, which rounds as the exact quotient does
GuardBits == 5 * LimbBits

FDivInt(x, d) ==
    LET ad == IF d < 0 THEN -d ELSE d
        s  == IF d < 0 THEN -x.sgn ELSE x.sgn
        qr == BDivSmall(BShl(x.man, GuardBits), ad)
    IN  IF qr.r = 0 THEN Round(s, qr.q, x.exp - GuardBits)
        ELSE Round(s, BAdd(BShl(qr.q, 1), <<1>>), x.exp - GuardBits - 1)

\* -1, 0, 1 as x < y, x = y, x > y
FCmp(x, y) ==
    LET d == ExactAdd(x, FNeg(y))
    IN  IF d.man = << >> THEN 0 ELSE d.sgn

FLess(x, y) == FCmp(x, y) = -1
FLessEq(x, y) == FCmp(x, y) <= 0

(***************************************************************************)
(* complex: [re, im] of two floats, with CPython's component formulas,     *)
(* each product and sum rounded on its own (no fused multiply-add).        *)
(***************************************************************************)
CZero == [re |-> FZero, im |-> FZero]

Complex(x, y) == [re |-> x, im |-> y]

CAdd(a, b) == [re |-> FAdd(a.re, b.re), im |-> FAdd(a.im, b.im)]

CMul(a, b) ==
    [re |-> FSub(FMul(a.re, b.re), FMul(a.im, b.im)),
     im |-> FAdd(FMul(a.re, b.im), FMul(a.im, b.re))]

(***************************************************************************)
(* mandelbrot_point                                                        *)
(***************************************************************************)
\* z = z * z + c
LoopBody(c, zz) == CAdd(CMul(zz, zz), c)

\* the escape test with the comparison turned round
Escaped_Less(zz) ==
    FLess(FAdd(FMul(zz.re, zz.re), FMul(zz.im, zz.im)), FFromInt(4))

\* the escape test with >= for >
Escaped_GreaterEq(zz) ==
    FLessEq(FFromInt(4), FAdd(FMul(zz.re, zz.re), FMul(zz.im, zz.im)))

\* (z.real * z.real + z.imag * z.imag) > 4.0
Escaped(zz) ==
    FLess(FFromInt(4), FAdd(FMul(zz.re, zz.re), FMul(zz.im, zz.im)))

\* the loop from iteration k on, z being zz
RECURSIVE PointLoop(_, _, _, _)
PointLoop(c, max_iter, zz, k) ==
    IF k >= max_iter THEN max_iter
    ELSE LET znew == LoopBody(c, zz)
         IN  IF Escaped(znew) THEN k ELSE PointLoop(c, max_iter, znew, k + 1)

mandelbrot_point(c, max_iter) == PointLoop(c, max_iter, CZero, 0)

(***************************************************************************)
(* linspace                                                                *)
(***************************************************************************)
\* the step taken over num intervals, which stops short of stop
LinStep_DivByNum(start, stop, num) == FDivInt(FSub(stop, start), num)

\* step = (stop - start) / (num - 1)
LinStep(start, stop, num) == FDivInt(FSub(stop, start), num - 1)

\* the elements counted from 1
LinElem_OneBased(start, step, k) == FAdd(start, FMul(FFromInt(k + 1), step))

\* start + i * step, the element at Python index k
LinElem(start, step, k) == FAdd(start, FMul(FFromInt(k), step))

\* float(start) is start itself, the arguments being floats; range(num) is
\* empty for num < 1, and step is then never used
linspace(start, stop, num) ==
    IF num = 1 THEN <<start>>
    ELSE [k \in 1..num |-> LinElem(start, LinStep(start, stop, num), k - 1)]

(***************************************************************************)
(* mandelbrot_grid                                                         *)
(***************************************************************************)
\* the grid of zeros with rows and columns exchanged
ZeroGrid_Transposed(width, height) == [r \in 1..width |-> [col \in 1..height |-> 0]]

\* [[0 for _ in range(width)] for _ in range(height)]
ZeroGrid(width, height) == [r \in 1..height |-> [col \in 1..width |-> 0]]

\* the sample with its real and imaginary parts exchanged
SamplePoint_Swapped(xsv, ysv, row, col) == Complex(ysv[row + 1], xsv[col + 1])

\* c = xs[i] + 1j * ys[j], at Python indices col and row: 1j * y is
\* (0*y - 1*0) + (0*0 + 1*y)j, and adding x gives x + yj, with nothing rounded
SamplePoint(xsv, ysv, row, col) == Complex(xsv[col + 1], ysv[row + 1])

\* a cell evaluation that also resets the next cell of its row
CellWrite_ClobbersNext(grid, xsv, ysv, max_iter, row, col) ==
    [grid EXCEPT ![row + 1] =
        [c \in 1..Len(grid[row + 1]) |->
            IF c = col + 1
            THEN mandelbrot_point(Complex(xsv[col + 1], ysv[row + 1]), max_iter)
            ELSE IF c = col + 2 THEN 0 ELSE grid[row + 1][c]]]

\* iters[j][i] = mandelbrot_point(c, max_iter=max_iter)
CellWrite(grid, xsv, ysv, max_iter, row, col) ==
    [grid EXCEPT ![row + 1][col + 1] =
        mandelbrot_point(SamplePoint(xsv, ysv, row, col), max_iter)]

\* the two nested loops from cell number k on, in row-major order
RECURSIVE GridLoop(_, _, _, _, _, _, _)
GridLoop(grid, xsv, ysv, width, height, max_iter, k) ==
    IF width < 1 \/ k >= width * height THEN grid
    ELSE GridLoop(CellWrite(grid, xsv, ysv, max_iter, k \div width, k % width),
                  xsv, ysv, width, height, max_iter, k + 1)

mandelbrot_grid(xmin, xmax, ymin, ymax, width, height, max_iter) ==
    GridLoop(ZeroGrid(width, height),
             linspace(xmin, xmax, width), linspace(ymin, ymax, height),
             width, height, max_iter, 0)

(***************************************************************************)
(* The inputs of the model.                                                *)
(***************************************************************************)
CoordFracBits == 3
MaxCoord == 16
MaxCount == 8
MaxIter == 8
MaxWidth == 4
MaxHeight == 4
MaxGridIter == 4
MaxParDim == 2
MaxParIter == 2
NumWorkers == 2

\* the floats k / 2^CoordFracBits in [-MaxCoord, MaxCoord] / 2^CoordFracBits
Coords == {Dyadic(k, CoordFracBits) : k \in (0 - MaxCoord)..MaxCoord}

\* the default view xmin=-2.0, xmax=1.0, ymin=-1.5, ymax=1.5
DefaultXMin == Dyadic(-2, 0)
DefaultXMax == Dyadic(1, 0)
DefaultYMin == Dyadic(-3, 1)
DefaultYMax == Dyadic(3, 1)

Idle == "idle"

VARIABLES
    lin_start, lin_stop, lin_num,   \* linspace's arguments
    lin_pc,                         \* "call", "returned"
    lin_ret,                        \* linspace's return value
    pt_c, pt_max_iter,              \* mandelbrot_point's arguments
    z, n,                           \* its locals
    pt_pc,                          \* "call", "loop", "returned"
    pt_ret,                         \* its return value
    args,                           \* mandelbrot_grid's arguments
    xs, ys, iters, j, i,            \* its locals
    pc,                             \* "call", "loop", "cell", "returned"
    ret,                            \* its return value
    pending                         \* the cells not yet evaluated (any-order evaluation)

lin_vars == <<lin_start, lin_stop, lin_num, lin_pc, lin_ret>>
pt_vars == <<pt_c, pt_max_iter, z, n, pt_pc, pt_ret>>
grid_vars == <<args, xs, ys, iters, j, i, pc, ret, pending>>
vars == <<lin_vars, pt_vars, grid_vars>>

LinIdle ==
    /\ lin_start = Idle /\ lin_stop = Idle /\ lin_num = Idle
    /\ lin_pc = Idle /\ lin_ret = Idle

PtIdle ==
    /\ pt_c = Idle /\ pt_max_iter = Idle /\ z = Idle /\ n = Idle
    /\ pt_pc = Idle /\ pt_ret = Idle

GridIdle ==
    /\ args = Idle /\ xs = Idle /\ ys = Idle /\ iters = Idle /\ j = Idle
    /\ i = Idle /\ pc = Idle /\ ret = Idle /\ pending = Idle

(***************************************************************************)
(* One call of linspace.                                                   *)
(***************************************************************************)
LinInit ==
    /\ lin_start \in Coords
    /\ lin_stop \in Coords
    /\ lin_num \in (0 - 2)..MaxCount
    /\ lin_pc = "call"
    /\ lin_ret = << >>
    /\ PtIdle
    /\ GridIdle

LinCall ==
    /\ lin_pc = "call"
    /\ lin_ret' = linspace(lin_start, lin_stop, lin_num)
    /\ lin_pc' = "returned"
    /\ UNCHANGED <<lin_start, lin_stop, lin_num, pt_vars, grid_vars>>

LinNext == LinCall

SpecLinspace == LinInit /\ [][LinNext]_vars

(***************************************************************************)
(* One call of mandelbrot_point, an iteration of its loop at a time.       *)
(***************************************************************************)
PointInit ==
    /\ pt_pc = "call"
    /\ pt_c = CZero
    /\ pt_max_iter = 0
    /\ z = CZero
    /\ n = 0
    /\ pt_ret = 0
    /\ LinIdle
    /\ GridIdle

\* the call binds c and max_iter, and z = 0 + 0j
PointCall ==
    /\ pt_pc = "call"
    /\ pt_c' \in {Complex(x, y) : x \in Coords, y \in Coords}
    /\ pt_max_iter' \in 0..MaxIter
    /\ z' = CZero
    /\ n' = 0
    /\ pt_pc' = "loop"
    /\ UNCHANGED <<pt_ret, lin_vars, grid_vars>>

\* an iteration that finds z escaped returns n
PointEscape ==
    /\ pt_pc = "loop"
    /\ n < pt_max_iter
    /\ z' = LoopBody(pt_c, z)
    /\ Escaped(z')
    /\ pt_ret' = n
    /\ pt_pc' = "returned"
    /\ UNCHANGED <<pt_c, pt_max_iter, n, lin_vars, grid_vars>>

\* an iteration that does not goes on with the next n
PointIterate ==
    /\ pt_pc = "loop"
    /\ n < pt_max_iter
    /\ z' = LoopBody(pt_c, z)
    /\ ~Escaped(z')
    /\ n' = n + 1
    /\ UNCHANGED <<pt_c, pt_max_iter, pt_pc, pt_ret, lin_vars, grid_vars>>

\* a point that never escapes reported as -1
PointExhausted_Sentinel ==
    /\ pt_pc = "loop"
    /\ n >= pt_max_iter
    /\ pt_ret' = 0 - 1
    /\ pt_pc' = "returned"
    /\ UNCHANGED <<pt_c, pt_max_iter, z, n, lin_vars, grid_vars>>

\* range(max_iter) exhausted: return max_iter
PointExhausted ==
    /\ pt_pc = "loop"
    /\ n >= pt_max_iter
    /\ pt_ret' = pt_max_iter
    /\ pt_pc' = "returned"
    /\ UNCHANGED <<pt_c, pt_max_iter, z, n, lin_vars, grid_vars>>

PointNext == PointCall \/ PointEscape \/ PointIterate \/ PointExhausted

SpecPoint == PointInit /\ [][PointNext]_vars

(***************************************************************************)
(* One call of mandelbrot_grid, a cell at a time.                          *)
(***************************************************************************)
Regions ==
    [xmin : {DefaultXMin, DefaultXMax}, xmax : {DefaultXMin, DefaultXMax},
     ymin : {DefaultYMin, DefaultYMax}, ymax : {DefaultYMin, DefaultYMax}]

Args(r, w, h, m) ==
    [xmin |-> r.xmin, xmax |-> r.xmax, ymin |-> r.ymin, ymax |-> r.ymax,
     width |-> w, height |-> h, max_iter |-> m]

GridInit ==
    /\ args \in {Args(r, w, h, m) : r \in Regions, w \in (0 - 1)..MaxWidth,
                                   h \in (0 - 1)..MaxHeight, m \in 0..MaxGridIter}
    /\ xs = << >>
    /\ ys = << >>
    /\ iters = << >>
    /\ j = 0
    /\ i = 0
    /\ pc = "call"
    /\ ret = << >>
    /\ pending = {}
    /\ LinIdle
    /\ PtIdle

\* the two axes and the grid of zeros
GridSetup ==
    /\ pc = "call"
    /\ xs' = linspace(args.xmin, args.xmax, args.width)
    /\ ys' = linspace(args.ymin, args.ymax, args.height)
    /\ iters' = ZeroGrid(args.width, args.height)
    /\ pc' = "loop"
    /\ UNCHANGED <<args, j, i, ret, pending, lin_vars, pt_vars>>

\* the body of the inner loop at (j, i), and the step to the next cell
GridCell ==
    /\ pc = "loop"
    /\ j < args.height
    /\ i < args.width
    /\ iters' = CellWrite(iters, xs, ys, args.max_iter, j, i)
    /\ IF i + 1 < args.width
       THEN i' = i + 1 /\ j' = j
       ELSE i' = 0 /\ j' = j + 1
    /\ UNCHANGED <<args, xs, ys, pc, ret, pending, lin_vars, pt_vars>>

\* both loops done (at once when a range is empty): return iters
GridReturn ==
    /\ pc = "loop"
    /\ ~(j < args.height /\ i < args.width)
    /\ ret' = iters
    /\ pc' = "returned"
    /\ UNCHANGED <<args, xs, ys, iters, j, i, pending, lin_vars, pt_vars>>

GridNext == GridSetup \/ GridCell \/ GridReturn

SpecGrid == GridInit /\ [][GridNext]_vars

(***************************************************************************)
(* mandelbrot_grid with its calls of mandelbrot_point taken an iteration   *)
(* at a time, beside direct calls of mandelbrot_point: the program starts  *)
(* with one call or the other.  In the loop body the grid binds c and      *)
(* max_iter and waits in "cell" while the point loop runs; the value the   *)
(* loop returns is stored in iters[j][i].                                  *)
(***************************************************************************)
NestedInit == PointInit \/ GridInit

\* c = xs[i] + 1j * ys[j], and the call mandelbrot_point(c, max_iter=max_iter)
CellCall ==
    /\ pc = "loop"
    /\ j < args.height
    /\ i < args.width
    /\ pt_c' = SamplePoint(xs, ys, j, i)
    /\ pt_max_iter' = args.max_iter
    /\ z' = CZero
    /\ n' = 0
    /\ pt_pc' = "loop"
    /\ pc' = "cell"
    /\ UNCHANGED <<pt_ret, args, xs, ys, iters, j, i, ret, pending, lin_vars>>

\* iters[j][i] = the value returned, and the step to the next cell
CellReturn ==
    /\ pc = "cell"
    /\ pt_pc = "returned"
    /\ iters' = [iters EXCEPT ![j + 1][i + 1] = pt_ret]
    /\ IF i + 1 < args.width
       THEN i' = i + 1 /\ j' = j
       ELSE i' = 0 /\ j' = j + 1
    /\ pc' = "loop"
    /\ UNCHANGED <<args, xs, ys, ret, pending, lin_vars, pt_vars>>

NestedNext ==
    \/ PointCall \/ PointEscape \/ PointIterate \/ PointExhausted
    \/ GridSetup \/ CellCall \/ CellReturn \/ GridReturn

SpecNested == NestedInit /\ [][NestedNext]_vars

(***************************************************************************)
(* The cells of mandelbrot_grid evaluated in any order: the loop body at   *)
(* (row, col) is the code's, the order is left open.  Row r belongs to     *)
(* worker r % NumWorkers, and a worker takes any cell of its rows that is  *)
(* still pending.                                                          *)
(***************************************************************************)
Owner(row) == row % NumWorkers

ParInit ==
    /\ args \in {Args(r, w, h, m) :
                    r \in {q \in Regions : q.ymin = DefaultYMin /\ q.ymax = DefaultYMax},
                    w \in 1..MaxParDim, h \in 1..MaxParDim, m \in 0..MaxParIter}
    /\ xs = << >>
    /\ ys = << >>
    /\ iters = << >>
    /\ j = 0
    /\ i = 0
    /\ pc = "call"
    /\ ret = << >>
    /\ pending = {}
    /\ LinIdle
    /\ PtIdle

ParSetup ==
    /\ pc = "call"
    /\ xs' = linspace(args.xmin, args.xmax, args.width)
    /\ ys' = linspace(args.ymin, args.ymax, args.height)
    /\ iters' = ZeroGrid(args.width, args.height)
    /\ pending' = (0..(args.height - 1)) \X (0..(args.width - 1))
    /\ pc' = "loop"
    /\ UNCHANGED <<args, j, i, ret, lin_vars, pt_vars>>

WorkerEval(w) ==
    /\ pc = "loop"
    /\ \E cell \in pending :
        /\ Owner(cell[1]) = w
        /\ iters' = CellWrite(iters, xs, ys, args.max_iter, cell[1], cell[2])
        /\ pending' = pending \ {cell}
    /\ UNCHANGED <<args, xs, ys, j, i, pc, ret, lin_vars, pt_vars>>

ParReturn ==
    /\ pc = "loop"
    /\ pending = {}
    /\ ret' = iters
    /\ pc' = "returned"
    /\ UNCHANGED <<args, xs, ys, iters, j, i, pending, lin_vars, pt_vars>>

ParNext == ParSetup \/ (\E w \in 0..(NumWorkers - 1) : WorkerEval(w)) \/ ParReturn

SpecPar == ParInit /\ [][ParNext]_vars

(***************************************************************************)
(* Exact arithmetic on float values, for stating tolerances.               *)
(***************************************************************************)
FAbs(x) == [x EXCEPT !.sgn = 1]

FMax(x, y) == IF FLess(x, y) THEN y ELSE x

\* x * 2^k, exactly
Scale(x, k) == IF x.man = << >> THEN x ELSE [x EXCEPT !.exp = x.exp + k]

\* x - y, not rounded
ExactSub(x, y) == ExactAdd(x, FNeg(y))

\* m * x for an int 0 < m < LimbBase, not rounded
ExactMulInt(x, m) == [x EXCEPT !.man = BMulSmall(x.man, m)]

\* |x| <= y
AbsLeq(x, y) == FCmp(FAbs(x), y) <= 0

\* 2^-49 * max(|start|, |stop|): a few units in the last place of the larger end
Tolerance(start, stop) == Scale(FMax(FAbs(start), FAbs(stop)), 0 - 49)

(***************************************************************************)
(* The properties.                                                         *)
(***************************************************************************)
LinReturned == lin_pc = "returned"

\* C1: linspace called with num < 1 fails; it never returns a sequence then.
C1_InvalidCountFails == LinReturned => lin_num >= 1

\* where C1 fails: linspace(start, stop, 0) has returned the empty list
C1_EmptyReturned == LinReturned /\ lin_num < 1 /\ lin_ret = << >>

GridComplete(grid, width, height) ==
    /\ Len(grid) = height
    /\ \A r \in 1..height : Len(grid[r]) = width

\* C2: mandelbrot_grid called with width < 1 or height < 1 returns no grid, and
\* every grid returned is complete.
C2_InvalidSizeFailsFast ==
    pc = "returned" =>
        /\ args.width >= 1
        /\ args.height >= 1
        /\ GridComplete(ret, args.width, args.height)

CellsInRange(grid, max_iter) ==
    \A r \in 1..Len(grid) : \A col \in 1..Len(grid[r]) : grid[r][col] \in 0..max_iter

\* C3: for max_iter >= 0, mandelbrot_point, called directly or by
\* mandelbrot_grid, terminates (the loop is at iteration n <= max_iter, and an
\* iteration either returns or moves on to n + 1, nothing else running
\* meanwhile) and what it returns is in 0..max_iter; and every cell of the
\* grid mandelbrot_grid builds, and of the grid it returns, is in 0..max_iter.
C3_PointTerminatesInRange ==
    /\ [](pt_pc = "loop" => n \in 0..pt_max_iter)
    /\ [][pt_pc = "loop" => (pt_pc' = "returned" \/ (pt_pc' = "loop" /\ n' = n + 1))]_vars
    /\ [](pt_pc = "returned" => pt_ret \in 0..pt_max_iter)
    /\ [](pc \in {"loop", "cell"} => CellsInRange(iters, args.max_iter))
    /\ [](pc = "returned" =>
            /\ GridComplete(ret, IF args.width < 0 THEN 0 ELSE args.width,
                                  IF args.height < 0 THEN 0 ELSE args.height)
            /\ CellsInRange(ret, args.max_iter))

\* a grid returned whose cells are 0, max_iter and a value between, the last
\* call of mandelbrot_point having escaped in the middle of its loop
C3_Witness ==
    /\ pc = "returned"
    /\ pt_pc = "returned"
    /\ args.width = 3
    /\ args.height = 3
    /\ ret[1][1] = 0
    /\ ret[2][2] = args.max_iter
    /\ ret[3][3] = pt_ret
    /\ 0 < pt_ret
    /\ pt_ret < pt_max_iter
    /\ pt_max_iter = args.max_iter

\* C4, as claimed: for num >= 1, linspace returns num elements, the first equal
\* to start and, for num > 1, the last equal to stop; for num = 1 it is <<start>>.
C4_LastIsStop ==
    (LinReturned /\ lin_num >= 1) =>
        /\ Len(lin_ret) = lin_num
        /\ lin_ret[1] = lin_start
        /\ lin_num > 1 => lin_ret[lin_num] = lin_stop
        /\ lin_num = 1 => lin_ret = <<lin_start>>

\* C4, amended: for num >= 1, and no operation of linspace overflowing or
\* underflowing (the subtraction, the division and the products and sums of the
\* elements all in the normal range, as they are for the inputs here),
\* linspace returns num elements, the first equal to start and, for num > 1,
\* the last within 2^-49 * max(|start|, |stop|) of stop; for num = 1 it is
\* <<start>> whatever stop is.
C4_LastNearStop ==
    (LinReturned /\ lin_num >= 1) =>
        /\ Len(lin_ret) = lin_num
        /\ lin_ret[1] = lin_start
        /\ lin_num > 1 =>
              AbsLeq(ExactSub(lin_ret[lin_num], lin_stop), Tolerance(lin_start, lin_stop))
        /\ lin_num = 1 => lin_ret = <<lin_start>>

\* a last element that rounding has moved off stop
C4_Witness == LinReturned /\ lin_num > 1 /\ lin_ret[lin_num] # lin_stop

\* C5: for width >= 1 and height >= 1, the grid returned has height rows of
\* width columns each.
C5_Shape ==
    (pc = "returned" /\ args.width >= 1 /\ args.height >= 1) =>
        GridComplete(ret, args.width, args.height)

\* a grid that is not square
C5_Witness ==
    /\ pc = "returned"
    /\ args.width = 3
    /\ args.height = 2
    /\ Len(ret) = 2
    /\ Len(ret[1]) = 3

\* C6: cell [j][i] of the grid returned is mandelbrot_point at real part
\* linspace(xmin, xmax, width)[i] and imaginary part linspace(ymin, ymax, height)[j];
\* row 0 is sampled at ymin and column 0 at xmin.
C6_CellIsPointAtSample ==
    pc = "returned" =>
        LET xaxis == linspace(args.xmin, args.xmax, args.width)
            yaxis == linspace(args.ymin, args.ymax, args.height)
        IN  \A r \in 0..(args.height - 1) : \A col \in 0..(args.width - 1) :
                /\ ret[r + 1][col + 1] =
                      mandelbrot_point(Complex(xaxis[col + 1], yaxis[r + 1]), args.max_iter)
                /\ yaxis[1] = args.ymin
                /\ xaxis[1] = args.xmin

\* the default view on 3 by 3: the corner at (xmin, ymin) escapes at once, the
\* centre never, and the cell at 1 + 0i differs from the one at 0 + 1i
C6_Witness ==
    /\ pc = "returned"
    /\ args = Args([xmin |-> DefaultXMin, xmax |-> DefaultXMax,
                    ymin |-> DefaultYMin, ymax |-> DefaultYMax], 3, 3, 3)
    /\ ret[1][1] = 0
    /\ ret[2][2] = 3
    /\ ret[2][3] = 2

\* C7: at c = 0 the iterate stays 0 and mandelbrot_point returns max_iter.
C7_OriginNeverEscapes ==
    (pt_pc # "call" /\ pt_c = CZero) =>
        /\ z = CZero
        /\ pt_pc = "returned" => pt_ret = pt_max_iter

\* the origin after a full loop
C7_Witness ==
    pt_c = CZero /\ pt_pc = "returned" /\ pt_max_iter = MaxIter /\ n = MaxIter

\* the first m iterates of z <- z*z + c from z = 0
RECURSIVE Orbit(_, _)
Orbit(c, m) ==
    IF m = 0 THEN << >>
    ELSE LET before == Orbit(c, m - 1)
             last   == IF m = 1 THEN CZero ELSE before[m - 1]
         IN  Append(before, CAdd(CMul(last, last), c))

\* real^2 + imag^2 strictly greater than 4
NormSqExceeds4(zz) ==
    FCmp(FAdd(FMul(zz.re, zz.re), FMul(zz.im, zz.im)), FFromInt(4)) = 1

\* the smallest k < max_iter whose (k+1)-th iterate is beyond the threshold, or max_iter
EscapeTime(c, max_iter) ==
    LET orbit    == Orbit(c, max_iter)
        escaping == {k \in 0..(max_iter - 1) : NormSqExceeds4(orbit[k + 1])}
    IN  IF escaping = {} THEN max_iter
        ELSE CHOOSE k \in escaping : \A m \in escaping : k <= m

\* C8: mandelbrot_point returns the smallest n < max_iter whose (n+1)-th iterate
\* has real^2 + imag^2 > 4, and max_iter when there is none; a c with
\* |c|^2 > 4 returns 0 when max_iter >= 1.
C8_EscapeTime ==
    pt_pc = "returned" =>
        /\ pt_ret = EscapeTime(pt_c, pt_max_iter)
        /\ (NormSqExceeds4(pt_c) /\ pt_max_iter >= 1) => pt_ret = 0

\* c = -2: the squared magnitude is 4 at every iterate, which is no escape
C8_Witness ==
    /\ pt_c = Complex(FFromInt(0 - 2), FZero)
    /\ pt_pc = "returned"
    /\ pt_max_iter = MaxIter
    /\ pt_ret = MaxIter

Monotonic(seq, start, stop) ==
    \A k \in 1..(Len(seq) - 1) :
        IF FLessEq(start, stop) THEN FLessEq(seq[k], seq[k + 1])
        ELSE FLessEq(seq[k + 1], seq[k])

\* C9, as claimed: for num > 1, consecutive elements differ by exactly the step,
\* read either as the float the code computes or as the exact quotient
\* (stop - start)/(num - 1); the sequence is non-decreasing when stop >= start
\* and non-increasing when stop < start.
C9_ConstantStep ==
    (LinReturned /\ lin_num > 1) =>
        /\ \/ \A k \in 1..(lin_num - 1) :
                  FCmp(ExactSub(lin_ret[k + 1], lin_ret[k]),
                       LinStep(lin_start, lin_stop, lin_num)) = 0
           \/ \A k \in 1..(lin_num - 1) :
                  FCmp(ExactMulInt(ExactSub(lin_ret[k + 1], lin_ret[k]), lin_num - 1),
                       ExactSub(lin_stop, lin_start)) = 0
        /\ Monotonic(lin_ret, lin_start, lin_stop)

\* C9, amended: for num > 1, consecutive elements differ by
\* (stop - start)/(num - 1) to within 2^-49 * max(|start|, |stop|); the sequence
\* is non-decreasing when stop >= start and non-increasing when stop < start.
C9_NearConstantStep ==
    (LinReturned /\ lin_num > 1) =>
        /\ \A k \in 1..(lin_num - 1) :
              AbsLeq(ExactSub(ExactMulInt(ExactSub(lin_ret[k + 1], lin_ret[k]), lin_num - 1),
                              ExactSub(lin_stop, lin_start)),
                     ExactMulInt(Tolerance(lin_start, lin_stop), lin_num - 1))
        /\ Monotonic(lin_ret, lin_start, lin_stop)

\* a descending axis whose differences are not all the same
C9_Witness ==
    /\ LinReturned
    /\ lin_num > 2
    /\ FLess(lin_stop, lin_start)
    /\ ExactSub(lin_ret[2], lin_ret[1]) # ExactSub(lin_ret[3], lin_ret[2])

\* C10: whatever the order in which the cells are evaluated, a cell not yet
\* evaluated is as the setup left it, a cell evaluated holds what the sequential
\* row-major loop puts there, and the grid returned is the sequential loop's.
C10_OrderIndependent ==
    pc \in {"loop", "returned"} =>
        LET seq == mandelbrot_grid(args.xmin, args.xmax, args.ymin, args.ymax,
                                   args.width, args.height, args.max_iter)
        IN  /\ \A r \in 0..(args.height - 1) : \A col \in 0..(args.width - 1) :
                  iters[r + 1][col + 1] =
                      IF <<r, col>> \in pending THEN 0 ELSE seq[r + 1][col + 1]
            /\ pc = "returned" => ret = seq

\* the last cell evaluated before the first, by the other worker, and not zero
C10_Witness ==
    /\ pc = "loop"
    /\ args.width = 2
    /\ args.height = 2
    /\ <<0, 0>> \in pending
    /\ <<1, 1>> \notin pending
    /\ iters[2][2] > 0

====
